---- MODULE Spec2Model ----
(***************************************************************************)
(* zewos: an embedded key-value store.  A StorageIndex composes a Backup   *)
(* (the canonical map key -> Object with aggregate metadata) and a         *)
(* CacheManager (a bounded map with TTL and eviction); Storage binds the   *)
(* index to encrypted files under <origin>/.zewos and saves on mutation.   *)
(***************************************************************************)
EXTENDS Integers, Sequences, FiniteSets, TLC

\* ------------------------------------------------------------------ bounds

\* Clock readings run 0..MaxTime (Instant::now / Utc::now, one tick = 1s).
MaxTime == 2
\* Backup.insert is not taken once metadata.object_count reached MaxCount.
MaxCount == 3
\* A log session holds at most MaxLog entries; Storage calls stop there.
MaxLog == 5
\* Concurrent threads make at most MaxOps calls on keys between them.
MaxOps == 4

\* ------------------------------------------------------- program constants

\* CacheConfig::default().max_size = 1024 * 1024 * 1024
DefaultMaxSize == 1073741824
\* CacheConfig::default().ttl = Duration::from_secs(300)
DefaultTtl == 300
\* BackupConfig::new().compression_level = Some(3)
DefaultLevel == 3

\* ------------------------------------------------------------ input sets

\* Keys and values are byte strings (Vec<u8>).
Keys == {<<107>>, <<108>>}
Values == {<<1>>, <<2, 3>>}
EmptyValue == <<>>
\* A key that is not valid UTF-8 (Storage formats the key into its log).
BadKey == <<255>>

\* Option<T>: None is the empty sequence, Some(x) the one-element sequence.
None == <<>>
Some(x) == <<x>>
IsSome(o) == Len(o) = 1
Unwrap(o) == o[1]

\* Result<T, E>
Ok(x) == [tag |-> "Ok", val |-> x]
Err(e) == [tag |-> "Err", val |-> e]
IsOk(r) == r.tag = "Ok"

\* The keys of a DashMap in the order one traversal visits them.  DashMap
\* fixes no order; every traversal of the same map is taken to agree.
IterKeys(m) ==
    CHOOSE s \in [1..Cardinality(DOMAIN m) -> DOMAIN m] :
        \A i, j \in DOMAIN s : i # j => s[i] # s[j]

RECURSIVE SumSeq(_)
SumSeq(s) == IF s = <<>> THEN 0 ELSE Head(s) + SumSeq(Tail(s))

\* --------------------------------------------------------------- Object

\* Object::new: empty data is InvalidData; size is set to data.len().
\* (name and the two timestamps are never read back by Index or Storage.)
Object_new(data) ==
    IF Len(data) = 0
    THEN Err("InvalidData")
    ELSE Ok([data |-> data, metadata |-> [size |-> Len(data)]])

Object_to_bytes(o) == o.data
Object_len(o) == Len(o.data)
Object_size(o) == o.metadata.size

\* ------------------------------------------------- encodings of the blobs

\* bincode of the objects map: the (key, object) pairs in traversal order.
Bincode_serialize(objects) ==
    [i \in 1..Cardinality(DOMAIN objects) |->
        <<IterKeys(objects)[i], objects[IterKeys(objects)[i]]>>]

\* bincode::deserialize into a DashMap: later pairs overwrite earlier ones.
Bincode_deserialize(pairs) ==
    [k \in {pairs[i][1] : i \in DOMAIN pairs} |->
        pairs[CHOOSE i \in DOMAIN pairs :
                 /\ pairs[i][1] = k
                 /\ \A j \in DOMAIN pairs : pairs[j][1] = k => j <= i][2]]

\* zstd frame around the input; decode_all fails on anything else.
compress_bytes(input, level) == <<"zstd", level, input>>
decompress_bytes(input) ==
    IF Len(input) = 3 /\ input[1] = "zstd"
    THEN Ok(input[3])
    ELSE Err("Decompression")

\* serde_json of a struct; from_slice fails on anything else.
Json_to_vec(x) == <<"json", x>>
Json_from_slice(bytes) ==
    IF Len(bytes) = 2 /\ bytes[1] = "json"
    THEN Ok(bytes[2])
    ELSE Err("Json")

\* SHA3-256 digest of a byte string (collision-free abstraction).
Sha256_new(data) == <<"sha3_256", data>>

\* --------------------------------------------------------------- Backup

BackupConfig_new == [compression_level |-> Some(DefaultLevel)]

BackupMetadata_new(total_size, compression_level, t) ==
    [creation_date |-> t, last_modified |-> t, total_size |-> total_size,
     object_count |-> 0, compression_level |-> compression_level]

EmptyMap == [k \in {} |-> None]

Backup_update_hash(b) ==
    [b EXCEPT !.hash = Sha256_new(Bincode_serialize(b.objects))]

Backup_with_config(config, t) ==
    [metadata |-> BackupMetadata_new(0, config.compression_level, t),
     objects |-> EmptyMap,
     hash |-> Sha256_new(<<>>),
     config |-> config]

Backup_new(t) == Backup_with_config(BackupConfig_new, t)

Backup_get(b, k) ==
    IF k \in DOMAIN b.objects THEN Some(b.objects[k]) ELSE None

MapPut(m, k, v) == [x \in DOMAIN m \cup {k} |-> IF x = k THEN v ELSE m[x]]
MapDel(m, k) == [x \in DOMAIN m \ {k} |-> m[x]]

\* insert's counters as they would be if the call stamped both dates.
Backup_insert_metadata_restamped(md, v, t) ==
    [md EXCEPT !.object_count = @ + 1,
               !.total_size = @ + Object_len(v),
               !.last_modified = t,
               !.creation_date = t]

\* The counters Backup::insert leaves: object_count and total_size both
\* grow, whether or not k was present.
Backup_insert_metadata(md, v, t) ==
    [md EXCEPT !.object_count = @ + 1,
               !.total_size = @ + Object_len(v),
               !.last_modified = t]

\* Backup::insert: [backup, result] with result the replaced object.
Backup_insert(b, k, v, t) ==
    [backup |-> Backup_update_hash(
                    [b EXCEPT !.objects = MapPut(b.objects, k, v),
                              !.metadata = Backup_insert_metadata(
                                  b.metadata, v, t)]),
     result |-> Backup_get(b, k)]

\* Backup::remove: counters and hash change only when k was present.
Backup_remove(b, k, t) ==
    IF k \in DOMAIN b.objects
    THEN [backup |-> Backup_update_hash(
                    [b EXCEPT !.objects = MapDel(b.objects, k),
                              !.metadata = [b.metadata EXCEPT
                                  !.object_count = @ - 1,
                                  !.total_size = @ - Object_len(b.objects[k]),
                                  !.last_modified = t]]),
          result |-> Some(b.objects[k])]
    ELSE [backup |-> b, result |-> None]

\* BackupConfig::with_compression_level
BackupConfig_with_compression_level(config, level) ==
    [config EXCEPT !.compression_level = <<level>>]

\* Backup::update: metadata, objects and hash are taken over; config is not.
Backup_update(b, other) ==
    [b EXCEPT !.metadata = other.metadata,
              !.objects = other.objects,
              !.hash = other.hash]

\* serialize_custom as it would be without the compress_bytes call.
Backup_serialize_custom_uncompressed(b, level) ==
    <<Bincode_serialize(b.objects), Json_to_vec(b.metadata),
      Json_to_vec(b.config)>>

\* Backup::serialize_custom: (compressed objects, metadata json, config json)
Backup_serialize_custom(b, level) ==
    <<compress_bytes(Bincode_serialize(b.objects),
                     IF IsSome(level) THEN Unwrap(level) ELSE DefaultLevel),
      Json_to_vec(b.metadata),
      Json_to_vec(b.config)>>

Backup_serialize(b) == Backup_serialize_custom(b, b.config.compression_level)

\* Backup::deserialize(metadata, data, config)
Backup_deserialize(metadata, data, config) ==
    IF ~IsOk(Json_from_slice(metadata)) THEN Err("SerializationError")
    ELSE IF ~IsOk(Json_from_slice(config)) THEN Err("SerializationError")
    ELSE IF ~IsOk(decompress_bytes(data)) THEN Err("IoError")
    ELSE Ok(Backup_update_hash(
            [metadata |-> Json_from_slice(metadata).val,
             objects |-> Bincode_deserialize(decompress_bytes(data).val),
             hash |-> Sha256_new(<<>>),
             config |-> Json_from_slice(config).val]))

\* --------------------------------------------------------- CacheManager

LRU == "LeastRecentlyUsed"
FIFO == "FirstInFirstOut"

CacheConfig_new(max_size, ttl, eviction_strategy) ==
    [max_size |-> max_size, ttl |-> ttl,
     eviction_strategy |-> eviction_strategy]

CacheConfig_default == CacheConfig_new(DefaultMaxSize, DefaultTtl, LRU)

CacheManager_new(config) == [cache |-> EmptyMap, config |-> config]

CacheManager_get_size(c) == Cardinality(DOMAIN c.cache)
CacheManager_contains_key(c, k) == k \in DOMAIN c.cache

\* The call does not come back: the thread waits for a lock it holds itself.
Hang(why) == [tag |-> "Hang", val |-> why]
IsHang(r) == r.tag = "Hang"

\* get as it would be if a hit left last_accessed alone.
CacheManager_get_untouched(c, k, t) ==
    IF k \in DOMAIN c.cache
    THEN [cache |-> c, result |-> <<c.cache[k].object>>]
    ELSE [cache |-> c, result |-> <<>>]

\* CacheManager::get: a hit sets last_accessed to now.
CacheManager_get(c, k, t) ==
    IF k \in DOMAIN c.cache
    THEN [cache |-> [c EXCEPT !.cache[k].last_accessed = t],
          result |-> Some(c.cache[k].object)]
    ELSE [cache |-> c, result |-> None]

\* DashMap::remove(k) called while a reference into the same map (the
\* RefMulti that iter() yielded for an entry, which keeps the read guard of
\* the entry's shard) is still alive: remove waits for the write guard of
\* that shard, which the caller's own read guard never releases.
DashMap_remove_holding_ref(c, k) ==
    [cache |-> c, result |-> Hang("DashMap::remove")]

\* evict_lru: the entry with the least last_accessed (any of them on a
\* tie) is looked up with iter().min_by_key and, while that reference is
\* held, removed; an empty cache is an InsertionError.
CacheManager_evict_lru(c) ==
    IF DOMAIN c.cache # {}
    THEN DashMap_remove_holding_ref(c,
            CHOOSE k \in DOMAIN c.cache :
                \A j \in DOMAIN c.cache :
                    c.cache[k].last_accessed <= c.cache[j].last_accessed)
    ELSE [cache |-> c, result |-> Err("InsertionError")]

\* evict_fifo: the first entry iter() yields, removed while the iterator
\* and the reference are held; an empty cache is an InsertionError.
CacheManager_evict_fifo(c) ==
    IF DOMAIN c.cache # {}
    THEN DashMap_remove_holding_ref(c, IterKeys(c.cache)[1])
    ELSE [cache |-> c, result |-> Err("InsertionError")]

CacheManager_evict(c) ==
    IF c.config.eviction_strategy = LRU
    THEN CacheManager_evict_lru(c)
    ELSE CacheManager_evict_fifo(c)

\* CacheManager::insert as it would be with entry(k).or_insert(..): an
\* entry already cached for k is kept.
CacheManager_insert_if_absent(c, k, v, t) ==
    IF k \in DOMAIN c.cache
    THEN [cache |-> c, result |-> Ok(<<>>)]
    ELSE IF CacheManager_get_size(c) >= c.config.max_size
         THEN CacheManager_evict(c)
         ELSE [cache |-> [c EXCEPT !.cache =
                             MapPut(c.cache, k,
                                    [object |-> v, last_accessed |-> t])],
               result |-> Ok(<<>>)]

\* Whether CacheManager::insert must evict first.
CacheManager_full(c) == CacheManager_get_size(c) >= c.config.max_size

\* CacheManager::insert: evict one entry when full (an eviction error is
\* returned and nothing is inserted), then put the entry.
CacheManager_insert(c, k, v, t) ==
    LET e == IF CacheManager_full(c)
             THEN CacheManager_evict(c)
             ELSE [cache |-> c, result |-> Ok(<<>>)]
    IN  IF IsOk(e.result)
        THEN [cache |-> [e.cache EXCEPT !.cache =
                            MapPut(e.cache.cache, k,
                                   [object |-> v, last_accessed |-> t])],
              result |-> Ok(<<>>)]
        ELSE e

CacheManager_remove(c, k) ==
    IF k \in DOMAIN c.cache
    THEN [cache |-> [c EXCEPT !.cache = MapDel(c.cache, k)],
          result |-> Some(c.cache[k].object)]
    ELSE [cache |-> c, result |-> None]

CacheManager_clear(c) == [c EXCEPT !.cache = EmptyMap]

\* The retain closure as it would be with `<` in place of `<=`.
CacheManager_retained_strict(c, k, t) ==
    t - c.cache[k].last_accessed < c.config.ttl

\* retain(|_, entry| now.duration_since(entry.last_accessed) <= ttl)
CacheManager_retained(c, k, t) ==
    t - c.cache[k].last_accessed <= c.config.ttl

CacheManager_evict_expired(c, t) ==
    [c EXCEPT !.cache =
        [k \in {x \in DOMAIN c.cache : CacheManager_retained(c, x, t)} |->
            c.cache[k]]]

\* Insert the pairs of `objects` named by `keys`, in that order.  With
\* stopOnErr the first error ends the loop (load_from_backup's `?`);
\* without it errors are dropped (sync_cache).  A hang ends both.
RECURSIVE CacheManager_insert_all(_, _, _, _, _)
CacheManager_insert_all(c, objects, keys, t, stopOnErr) ==
    IF keys = <<>>
    THEN [cache |-> c, result |-> Ok(<<>>)]
    ELSE LET r == CacheManager_insert(c, Head(keys), objects[Head(keys)], t)
         IN  IF IsHang(r.result) \/ (stopOnErr /\ ~IsOk(r.result))
             THEN r
             ELSE CacheManager_insert_all(r.cache, objects, Tail(keys), t,
                                          stopOnErr)

CacheManager_load_from_backup(c, b, t) ==
    CacheManager_insert_all(c, b.objects, IterKeys(b.objects), t, TRUE)

CacheManager_update_config(c, config) == [c EXCEPT !.config = config]

\* --------------------------------------------------------- StorageIndex
\* An index is [backup |-> Backup, cache |-> CacheManager]; every operation
\* yields the index it leaves and its result.

StorageIndex_new(cache_config, t) ==
    [backup |-> Backup_new(t), cache |-> CacheManager_new(cache_config)]

OptBytes(o) == IF IsSome(o) THEN Some(Object_to_bytes(Unwrap(o))) ELSE None

\* The part of insert after Backup::insert returned: the cache is written.
StorageIndex_insert_cache(idx, bi, key, object, t) ==
    LET ci == CacheManager_insert(idx.cache, key, object, t)
    IN  [backup |-> bi.backup, cache |-> ci.cache,
         result |-> IF IsOk(ci.result) THEN Ok(OptBytes(bi.result))
                    ELSE ci.result]

StorageIndex_insert(idx, key, value, t) ==
    IF ~IsOk(Object_new(value))
    THEN [backup |-> idx.backup, cache |-> idx.cache,
          result |-> Object_new(value)]
    ELSE StorageIndex_insert_cache(idx,
            Backup_insert(idx.backup, key, Object_new(value).val, t),
            key, Object_new(value).val, t)

\* The miss path of get as it would be with `?` on the cache insert.
StorageIndex_get_backup_checked(idx, key, t) ==
    IF IsSome(Backup_get(idx.backup, key))
    THEN LET ci == CacheManager_insert(idx.cache, key,
                                       Unwrap(Backup_get(idx.backup, key)), t)
         IN  [backup |-> idx.backup, cache |-> ci.cache,
              result |-> IF ~IsOk(ci.result) THEN ci.result
                         ELSE Ok(Object_to_bytes(
                                    Unwrap(Backup_get(idx.backup, key))))]
    ELSE [backup |-> idx.backup, cache |-> idx.cache,
          result |-> Err("KeyNotFound")]

\* The miss path of get: a backup hit populates the cache, and the result
\* of that insert is dropped (`let _ =`).
StorageIndex_get_backup(idx, key, t) ==
    IF IsSome(Backup_get(idx.backup, key))
    THEN LET ci == CacheManager_insert(idx.cache, key,
                                       Unwrap(Backup_get(idx.backup, key)), t)
         IN  [backup |-> idx.backup, cache |-> ci.cache,
              result |-> IF IsHang(ci.result) THEN ci.result
                         ELSE Ok(Object_to_bytes(
                                    Unwrap(Backup_get(idx.backup, key))))]
    ELSE [backup |-> idx.backup, cache |-> idx.cache,
          result |-> Err("KeyNotFound")]

StorageIndex_get(idx, key, t) ==
    LET cg == CacheManager_get(idx.cache, key, t)
    IN  IF IsSome(cg.result)
        THEN [backup |-> idx.backup, cache |-> cg.cache,
              result |-> Ok(Object_to_bytes(Unwrap(cg.result)))]
        ELSE StorageIndex_get_backup(idx, key, t)

\* remove as it would be without the cache.remove call.
StorageIndex_remove_backup_only(idx, key, t) ==
    [backup |-> Backup_remove(idx.backup, key, t).backup,
     cache |-> idx.cache,
     result |-> Ok(OptBytes(Backup_remove(idx.backup, key, t).result))]

StorageIndex_remove(idx, key, t) ==
    LET br == Backup_remove(idx.backup, key, t)
    IN  [backup |-> br.backup,
         cache |-> CacheManager_remove(idx.cache, key).cache,
         result |-> Ok(OptBytes(br.result))]

\* serialize_backup: the objects blob and the metadata blob.
StorageIndex_serialize_backup(idx, compression_level) ==
    <<Backup_serialize_custom(idx.backup, compression_level)[1],
      Backup_serialize_custom(idx.backup, compression_level)[2]>>

\* index.rs hands Backup::deserialize the two blobs it has; the config
\* blob is the default configuration's.
StorageIndex_decode(data, metadata) ==
    Backup_deserialize(metadata, data, Json_to_vec(BackupConfig_new))

\* deserialize_backup: a fresh default cache seeded from the backup.
StorageIndex_deserialize_backup(data, metadata, t) ==
    IF ~IsOk(StorageIndex_decode(data, metadata))
    THEN [result |-> StorageIndex_decode(data, metadata)]
    ELSE LET b == StorageIndex_decode(data, metadata).val
             lc == CacheManager_load_from_backup(
                       CacheManager_new(CacheConfig_default), b, t)
         IN  IF IsOk(lc.result)
             THEN [backup |-> b, cache |-> lc.cache, result |-> Ok(<<>>)]
             ELSE [result |-> lc.result]

StorageIndex_sync_cache(idx, t) ==
    LET r == CacheManager_insert_all(CacheManager_clear(idx.cache),
                 idx.backup.objects, IterKeys(idx.backup.objects), t, FALSE)
    IN  [backup |-> idx.backup, cache |-> r.cache,
         result |-> IF IsHang(r.result) THEN r.result ELSE Ok(<<>>)]

\* update_backup: the backup adopts the decoded snapshot; the cache is not
\* touched.
StorageIndex_update_backup(idx, data, metadata) ==
    IF ~IsOk(StorageIndex_decode(data, metadata))
    THEN [backup |-> idx.backup, cache |-> idx.cache,
          result |-> StorageIndex_decode(data, metadata)]
    ELSE [backup |-> Backup_update(idx.backup,
                                   StorageIndex_decode(data, metadata).val),
          cache |-> idx.cache, result |-> Ok(<<>>)]

StorageIndex_clear_cache(idx) ==
    [backup |-> idx.backup, cache |-> CacheManager_clear(idx.cache),
     result |-> Ok(<<>>)]

StorageIndex_evict_expired_cache(idx, t) ==
    [backup |-> idx.backup, cache |-> CacheManager_evict_expired(idx.cache, t),
     result |-> Ok(<<>>)]

\* len as it would be if it read the metadata counter.
StorageIndex_len_from_metadata(idx) == idx.backup.metadata.object_count

StorageIndex_get_metadata(idx) == idx.backup.metadata
StorageIndex_get_object_count(idx) == Cardinality(DOMAIN idx.backup.objects)
StorageIndex_get_total_size(idx) ==
    SumSeq([i \in 1..Cardinality(DOMAIN idx.backup.objects) |->
        Object_size(idx.backup.objects[IterKeys(idx.backup.objects)[i]])])
StorageIndex_contains_key(idx, key) == IsSome(Backup_get(idx.backup, key))
StorageIndex_get_all_keys(idx) == IterKeys(idx.backup.objects)
StorageIndex_is_empty(idx) == DOMAIN idx.backup.objects = {}
StorageIndex_len(idx) == Cardinality(DOMAIN idx.backup.objects)

\* ------------------------------------------------- files and encryption

\* A path is the sequence of its components; PathBuf::join appends.
Path_join(base, rel) == base \o rel

\* The fs is [dirs |-> set of directories, files |-> path -> content].
EmptyFs == [dirs |-> {}, files |-> EmptyMap]

\* fs::create_dir_all: the directory and every missing parent.
Fs_create_dir_all(f, path) ==
    [f EXCEPT !.dirs = @ \cup {SubSeq(path, 1, i) : i \in 1..Len(path)}]

Fs_exists(f, path) == path \in f.dirs \/ path \in DOMAIN f.files

\* SystemFingerprint::generate_fingerprint: a digest of the host's identity.
SystemFingerprint_generate(h) == <<"fingerprint", h>>

\* Deriver::derive_key: HKDF with no salt, ikm = the path, info = fingerprint.
Deriver_derive_key(ikm, info) == <<"hkdf", ikm, info>>

AES_new(key) == [cipher |-> key]

\* AES::encrypt: nonce || ciphertext, readable only under the same key.
AES_encrypt(aes, plaintext) == <<"aead", "nonce", aes.cipher, plaintext>>

\* AES::decrypt: input shorter than the nonce (an empty file) is an error,
\* and so is a frame sealed under another key, a frame with anything after
\* its tag, or no frame at all.
AES_decrypt(aes, ciphertext) ==
    IF Len(ciphertext) = 0 THEN Err("aead::Error")
    ELSE IF /\ Len(ciphertext) = 4
            /\ ciphertext[1] = "aead"
            /\ ciphertext[3] = aes.cipher
         THEN Ok(ciphertext[4])
         ELSE Err("aead::Error")

\* A failed unwrap()/expect(): the thread panics.
Panic(why) == [tag |-> "Panic", val |-> why]
IsPanic(r) == r.tag = "Panic"

\* FileHandler::new: the file is created empty unless it exists; the key
\* is derived from the file's path and the host fingerprint.
FileHandler_new(f, path, h) ==
    [fs |-> IF path \in DOMAIN f.files THEN f
            ELSE [f EXCEPT !.files = MapPut(f.files, path, <<>>)],
     handler |-> [path |-> path,
                  aes |-> AES_new(Deriver_derive_key(
                              path, SystemFingerprint_generate(h)))]]

\* FileHandler::read: the content decrypted; decrypt(..).unwrap() panics.
FileHandler_read(f, fh) ==
    IF fh.path \notin DOMAIN f.files THEN Err("Io")
    ELSE IF IsOk(AES_decrypt(fh.aes, f.files[fh.path]))
         THEN AES_decrypt(fh.aes, f.files[fh.path])
         ELSE Panic("decrypt")

\* File::create at `path` succeeds while the directory it lies in exists.
Path_parent(path) == SubSeq(path, 1, Len(path) - 1)
File_create_ok(f, path) == Path_parent(path) \in f.dirs

\* FileHandler::write: the file is replaced by the encrypted content.
FileHandler_write(f, fh, contents) ==
    [f EXCEPT !.files = MapPut(f.files, fh.path, AES_encrypt(fh.aes, contents))]

FileHandler_write_no_encrypt(f, fh, contents) ==
    [f EXCEPT !.files = MapPut(f.files, fh.path, contents)]

\* File::append: the text is added, as it is, to the end of the file.
File_append(f, fh, contents) ==
    [f EXCEPT !.files = MapPut(f.files, fh.path, f.files[fh.path] \o contents)]

\* The three files of a directory, relative to it.
ObjsFile == <<"objects", "objects.bin">>
MetadataFile == <<"metadata.zewos">>
ConfigFile == <<"config.zewos">>

\* Directory::new: the folder, logs/ and objects/ are created, then a
\* handle (creating the file when missing) for each of the three files.
Directory_new(f, path, h) ==
    LET f0 == Fs_create_dir_all(
                  Fs_create_dir_all(Fs_create_dir_all(f, path),
                                    Path_join(path, <<"logs">>)),
                  Path_join(path, <<"objects">>))
        h1 == FileHandler_new(f0, Path_join(path, ObjsFile), h)
        h2 == FileHandler_new(h1.fs, Path_join(path, MetadataFile), h)
        h3 == FileHandler_new(h2.fs, Path_join(path, ConfigFile), h)
    IN  [fs |-> h3.fs,
         dir |-> [path |-> path,
                  files |-> <<h1.handler, h2.handler, h3.handler>>,
                  logs |-> Path_join(path, <<"logs">>)]]

Directory_objs_file(d) == d.files[1]
Directory_metadata_file(d) == d.files[2]
Directory_config_file(d) == d.files[3]

\* ------------------------------------------------------------- session log

\* Log::serialize without its time of day: "action:details:additional_info"
Log_new(details, action, additional_info) == <<action, details, additional_info>>

\* LogFileStruct::serialize: one line per entry, in order.
LogFileStruct_serialize(logs) == <<"text", logs>>

\* LogsManager::start_session: a log file named after the current second.
\* No operation reads a log file, and LogFile::save rewrites it whole from
\* the entries held in memory, so the file is not kept in fs: its content
\* is LogFile_content of the session.
LogsManager_start_session(d, t) ==
    Some([file |-> Path_join(d.logs, <<ToString(t)>>), logs |-> <<>>])

\* add_log as it would be if the newest entry went to the head of the log.
LogsManager_add_log_prepending(lg, details, action, additional_info) ==
    IF lg = <<>>
    THEN lg
    ELSE <<[lg[1] EXCEPT !.logs =
               <<Log_new(details, action, additional_info)>> \o @]>>

\* LogsManager::add_log: nothing without a session; else the entry is
\* appended (and the file rewritten).
LogsManager_add_log(lg, details, action, additional_info) ==
    IF ~IsSome(lg)
    THEN lg
    ELSE Some([Unwrap(lg) EXCEPT !.logs =
                  Append(@, Log_new(details, action, additional_info))])

\* What the session's log file holds.
LogFile_content(lg) == LogFileStruct_serialize(Unwrap(lg).logs)

\* -------------------------------------------------------------- Storage
\* A store is [backup, cache, dir, logger, fs]; every operation yields the
\* store it leaves and its result.

\* String::from_utf8(key).unwrap(): bytes above 127 here are no UTF-8.
IsUtf8(key) == \A i \in DOMAIN key : key[i] < 128

WithLog(st, details, action, additional_info) ==
    [st EXCEPT !.logger = LogsManager_add_log(@, details, action,
                                              additional_info)]

\* format!("key-\"{}\"", String::from_utf8(key).unwrap())
KeyInfo(key) == "key-" \o ToString(key)

\* The store with the index replaced by the outcome of an index operation.
WithIndex(st, o) == [st EXCEPT !.backup = o.backup, !.cache = o.cache]

\* save as it would be with the two blobs written to each other's file.
Storage_save_swapped(st) ==
    LET blobs == StorageIndex_serialize_backup(
                     [backup |-> st.backup, cache |-> st.cache],
                     Some(DefaultLevel))
        f1 == FileHandler_write(st.fs, Directory_objs_file(st.dir), blobs[2])
        f2 == FileHandler_write(f1, Directory_metadata_file(st.dir), blobs[1])
    IN  [store |-> WithLog([st EXCEPT !.fs = f2],
                           "zewos_storage", "save", "backup_created"),
         result |-> Ok(<<>>)]

\* Storage::save: the two blobs are written, then the log entry; a write
\* that fails is unwrap()ped, so the thread panics.
Storage_save(st) ==
    LET blobs == StorageIndex_serialize_backup(
                     [backup |-> st.backup, cache |-> st.cache],
                     Some(DefaultLevel))
        f1 == FileHandler_write(st.fs, Directory_objs_file(st.dir), blobs[1])
        f2 == FileHandler_write(f1, Directory_metadata_file(st.dir), blobs[2])
    IN  IF ~File_create_ok(st.fs, Directory_objs_file(st.dir).path)
        THEN [store |-> st, result |-> Panic("write")]
        ELSE IF ~File_create_ok(f1, Directory_metadata_file(st.dir).path)
        THEN [store |-> [st EXCEPT !.fs = f1], result |-> Panic("write")]
        ELSE [store |-> WithLog([st EXCEPT !.fs = f2],
                                "zewos_storage", "save", "backup_created"),
              result |-> Ok(<<>>)]

\* Storage::load
Storage_load(f, origin, h, t) ==
    LET d == Directory_new(f, origin, h)
        data == FileHandler_read(d.fs, Directory_objs_file(d.dir))
        metadata == FileHandler_read(d.fs, Directory_metadata_file(d.dir))
    IN  IF ~IsOk(data) THEN [fs |-> d.fs, result |-> data]
        ELSE IF ~IsOk(metadata) THEN [fs |-> d.fs, result |-> metadata]
        ELSE LET i == StorageIndex_deserialize_backup(data.val, metadata.val, t)
             IN  IF ~IsOk(i.result) THEN [fs |-> d.fs, result |-> i.result]
                 ELSE [store |-> WithLog(
                           [backup |-> i.backup, cache |-> i.cache,
                            dir |-> d.dir,
                            logger |-> LogsManager_start_session(d.dir, t),
                            fs |-> d.fs],
                           "zewos_init", "load", "storage_loaded"),
                       fs |-> d.fs,
                       result |-> Ok(<<>>)]

\* Storage::init: an existing <origin>/.zewos is loaded; else a new index
\* with the default cache, a new directory and a log session.
Storage_init(f, origin, h, t) ==
    IF Fs_exists(f, Path_join(origin, <<".zewos">>))
    THEN Storage_load(f, Path_join(origin, <<".zewos">>), h, t)
    ELSE LET d == Directory_new(f, Path_join(origin, <<".zewos">>), h)
         IN  [store |-> WithLog(
                  [backup |-> StorageIndex_new(CacheConfig_default, t).backup,
                   cache |-> StorageIndex_new(CacheConfig_default, t).cache,
                   dir |-> d.dir,
                   logger |-> LogsManager_start_session(d.dir, t),
                   fs |-> d.fs],
                  "zewos_init", "init", "first_initialization"),
              fs |-> d.fs,
              result |-> Ok(<<>>)]

\* The log entry for the outcome of an index call.
Outcome(res) == IF IsOk(res) THEN "success" ELSE "failed"

\* get as it would be if it wrote the snapshot like insert and remove do.
Storage_get_saving(st, key, t) ==
    IF ~IsUtf8(key) THEN [store |-> st, result |-> Panic("from_utf8")]
    ELSE LET s1 == WithLog(st, "zewos_request", "get", KeyInfo(key))
             r == StorageIndex_get([backup |-> s1.backup, cache |-> s1.cache],
                                   key, t)
             s2 == Storage_save(WithLog(WithIndex(s1, r), "zewos_request",
                                        "get", Outcome(r.result)))
         IN  [store |-> s2.store, result |-> r.result]

\* Storage::get
Storage_get(st, key, t) ==
    IF ~IsUtf8(key) THEN [store |-> st, result |-> Panic("from_utf8")]
    ELSE LET s1 == WithLog(st, "zewos_request", "get", KeyInfo(key))
             r == StorageIndex_get([backup |-> s1.backup, cache |-> s1.cache],
                                   key, t)
         IN  IF IsHang(r.result)
             THEN [store |-> WithIndex(s1, r), result |-> r.result]
             ELSE [store |-> WithLog(WithIndex(s1, r), "zewos_request", "get",
                                     Outcome(r.result)),
                   result |-> r.result]

\* The index of a store, as the read operations are handed it.
IndexOf(st) == [backup |-> st.backup, cache |-> st.cache]

\* Storage::contains_key
Storage_contains_key(st, key) ==
    IF ~IsUtf8(key) THEN [store |-> st, result |-> Panic("from_utf8")]
    ELSE [store |-> WithLog(st, "zewos_request", "contains_key", KeyInfo(key)),
          result |-> Ok(StorageIndex_contains_key(IndexOf(st), key))]

\* Storage::len
Storage_len(st) ==
    [store |-> WithLog(st, "zewos_request", "len", "queried_length"),
     result |-> Ok(StorageIndex_len(IndexOf(st)))]

\* Storage::is_empty
Storage_is_empty(st) ==
    [store |-> WithLog(st, "zewos_request", "is_empty", "checked_emptiness"),
     result |-> Ok(StorageIndex_is_empty(IndexOf(st)))]

\* Storage::get_all_keys
Storage_get_all_keys(st) ==
    [store |-> WithLog(st, "zewos_request", "get_all_keys",
                       "retrieved_all_keys"),
     result |-> Ok(StorageIndex_get_all_keys(IndexOf(st)))]

\* insert and remove as they would be without the call to save.
Storage_finish_unsaved(s1, r, action) ==
    IF IsHang(r.result)
    THEN [store |-> WithIndex(s1, r), result |-> r.result]
    ELSE [store |-> WithLog(WithIndex(s1, r), "zewos_request", action,
                            Outcome(r.result)),
          result |-> r.result]

\* What insert and remove do once the index call came back: the outcome is
\* logged, the store is saved, and the index call's result is returned.
Storage_finish(s1, r, action) ==
    IF IsHang(r.result)
    THEN [store |-> WithIndex(s1, r), result |-> r.result]
    ELSE LET sv == Storage_save(WithLog(WithIndex(s1, r), "zewos_request",
                                        action, Outcome(r.result)))
         IN  [store |-> sv.store,
              result |-> IF IsOk(sv.result) THEN r.result ELSE sv.result]

\* Storage::insert
Storage_insert(st, key, value, t) ==
    IF ~IsUtf8(key) THEN [store |-> st, result |-> Panic("from_utf8")]
    ELSE LET s1 == WithLog(st, "zewos_request", "insert", KeyInfo(key))
         IN  Storage_finish(s1,
                 StorageIndex_insert([backup |-> s1.backup, cache |-> s1.cache],
                                     key, value, t),
                 "insert")

\* Storage::remove
Storage_remove(st, key, t) ==
    IF ~IsUtf8(key) THEN [store |-> st, result |-> Panic("from_utf8")]
    ELSE LET s1 == WithLog(st, "zewos_request", "remove", KeyInfo(key))
         IN  Storage_finish(s1,
                 StorageIndex_remove([backup |-> s1.backup, cache |-> s1.cache],
                                     key, t),
                 "remove")

\* ================================================================ state

VARIABLES
    backup,     \* StorageIndex.backup: the Backup behind its RwLock
    cache,      \* StorageIndex.cache: the CacheManager behind its RwLock
    now,        \* the reading of the clock
    status,     \* "ok", "hung" (a call never returns) or "panicked"
    ret,        \* the last call: [op, key, value, res, path]
    live,       \* history: the keys inserted and not removed since
    fs,         \* the file system: path -> content of the file
    dir,        \* Storage.dir: Some(path of the directory), None if no handle
    logger,     \* Storage.logger.current_log: Some(entries) or None
    host,       \* the host whose fingerprint keys the files
    pc,         \* per thread: where its call on the shared index stands
    hist        \* history: the calls threads made, with invoke/return times

storeVars == <<fs, dir, logger, host>>
concVars == <<pc, hist>>
vars ==
    <<backup, cache, now, status, ret, live, fs, dir, logger, host, pc, hist>>

\* The threads that share one StorageIndex, and a thread between calls.
Threads == {"t1", "t2"}
Idle == [at |-> "idle"]

Index == [backup |-> backup, cache |-> cache]

Call(op, key, value, res) ==
    [op |-> op, key |-> key, value |-> value, res |-> res, path |-> <<>>]

\* How a call that does not return successfully leaves the caller.
StatusAfter(res) == IF IsHang(res) THEN "hung" ELSE "ok"

\* The cache configurations an index is created with.
CacheConfigs ==
    {CacheConfig_new(m, 1, s) : m \in {0, 1, DefaultMaxSize}, s \in {LRU, FIFO}}

\* The object maps a snapshot handed to update_backup may hold.
ObjectMaps ==
    UNION {[S -> {Object_new(v).val : v \in Values}] : S \in SUBSET Keys}

\* A backup that reached `m` by inserting its pairs into a new Backup.
RECURSIVE Backup_insert_all(_, _, _, _)
Backup_insert_all(b, m, keys, t) ==
    IF keys = <<>> THEN b
    ELSE Backup_insert_all(Backup_insert(b, Head(keys), m[Head(keys)], t).backup,
                           m, Tail(keys), t)

SnapshotOf(m) ==
    StorageIndex_serialize_backup(
        [backup |-> Backup_insert_all(Backup_new(0), m, IterKeys(m), 0),
         cache |-> CacheManager_new(CacheConfig_default)], None)

\* Bytes that are no blob at all.
Junk == <<"junk">>

\* The blob pairs update_backup is called with.
UpdateInputs ==
    {[data |-> SnapshotOf(m)[1], metadata |-> SnapshotOf(m)[2],
      keys |-> DOMAIN m] : m \in ObjectMaps}
    \cup {[data |-> Junk, metadata |-> SnapshotOf(EmptyMap)[2], keys |-> {}]}

IndexInit ==
    /\ \E c \in CacheConfigs :
          /\ backup = StorageIndex_new(c, 0).backup
          /\ cache = StorageIndex_new(c, 0).cache
    /\ now = 0
    /\ status = "ok"
    /\ ret = Call("new", <<>>, <<>>, Ok(<<>>))
    /\ live = {}
    /\ fs = EmptyFs
    /\ dir = None
    /\ logger = None
    /\ host = "h1"
    /\ pc = [t \in Threads |-> Idle]
    /\ hist = <<>>

\* Time passes between calls.
Tick ==
    /\ now < MaxTime
    /\ now' = now + 1
    /\ UNCHANGED <<backup, cache, status, ret, live, storeVars, concVars>>

\* Apply the outcome `o` of an index operation.
IndexStep(o, op, key, value) ==
    /\ backup' = o.backup
    /\ cache' = o.cache
    /\ status' = StatusAfter(o.result)
    /\ ret' = Call(op, key, value, o.result)
    /\ UNCHANGED <<now, storeVars, concVars>>

IndexInsert(k, v) ==
    /\ status = "ok"
    /\ backup.metadata.object_count < MaxCount
    /\ IndexStep(StorageIndex_insert(Index, k, v, now), "insert", k, v)
    /\ live' = IF IsOk(Object_new(v)) THEN live \cup {k} ELSE live

IndexGet(k) ==
    /\ status = "ok"
    /\ IndexStep(StorageIndex_get(Index, k, now), "get", k, <<>>)
    /\ UNCHANGED live

IndexRemove(k) ==
    /\ status = "ok"
    /\ IndexStep(StorageIndex_remove(Index, k, now), "remove", k, <<>>)
    /\ live' = live \ {k}

IndexSyncCache ==
    /\ status = "ok"
    /\ IndexStep(StorageIndex_sync_cache(Index, now), "sync_cache", <<>>, <<>>)
    /\ UNCHANGED live

IndexUpdateBackup(in) ==
    /\ status = "ok"
    /\ IndexStep(StorageIndex_update_backup(Index, in.data, in.metadata),
                 "update_backup", <<>>, <<>>)
    /\ live' = IF in.data = Junk THEN live ELSE in.keys

IndexClearCache ==
    /\ status = "ok"
    /\ IndexStep(StorageIndex_clear_cache(Index), "clear_cache", <<>>, <<>>)
    /\ UNCHANGED live

IndexEvictExpiredCache ==
    /\ status = "ok"
    /\ IndexStep(StorageIndex_evict_expired_cache(Index, now),
                 "evict_expired_cache", <<>>, <<>>)
    /\ UNCHANGED live

IndexNext ==
    \/ Tick
    \/ \E k \in Keys, v \in Values \cup {EmptyValue} : IndexInsert(k, v)
    \/ \E k \in Keys : IndexGet(k)
    \/ \E k \in Keys : IndexRemove(k)
    \/ IndexSyncCache
    \/ \E in \in UpdateInputs : IndexUpdateBackup(in)
    \/ IndexClearCache
    \/ IndexEvictExpiredCache

\* The StorageIndex under sequential calls.
Spec == IndexInit /\ [][IndexNext]_vars

\* ------------------------------------------------------- Storage calls

\* The directory init is given, and the paths load is given.
Origin == <<"tmp">>
LoadPaths == {Origin, Path_join(Origin, <<".zewos">>)}

\* The variables as a store (while a handle is open).
Store ==
    [backup |-> backup, cache |-> cache, dir |-> Unwrap(dir),
     logger |-> logger, fs |-> fs]

HandleOpen == status = "ok" /\ IsSome(dir)
LogRoom(n) == IsSome(logger) => Len(Unwrap(logger).logs) + n <= MaxLog

\* What the index variables hold while there is no handle.
NoIndex == StorageIndex_new(CacheConfig_default, 0)

StoreInitState ==
    /\ backup = NoIndex.backup
    /\ cache = NoIndex.cache
    /\ now = 0
    /\ status = "ok"
    /\ ret = Call("start", <<>>, <<>>, Ok(<<>>))
    /\ live = {}
    /\ fs = Fs_create_dir_all(EmptyFs, Origin)
    /\ dir = None
    /\ logger = None
    /\ host = "h1"
    /\ pc = [t \in Threads |-> Idle]
    /\ hist = <<>>

\* Apply the outcome of init or load: a handle, or a panic that leaves
\* only what was created on disk.
Open(o, op, path) ==
    /\ ret' = [Call(op, <<>>, <<>>, o.result) EXCEPT !.path = path]
    /\ IF IsOk(o.result)
       THEN /\ backup' = o.store.backup
            /\ cache' = o.store.cache
            /\ dir' = Some(o.store.dir)
            /\ logger' = o.store.logger
            /\ fs' = o.store.fs
            /\ live' = DOMAIN o.store.backup.objects
            /\ UNCHANGED status
       ELSE /\ fs' = o.fs
            /\ status' = IF IsPanic(o.result) THEN "panicked" ELSE "ok"
            /\ UNCHANGED <<backup, cache, dir, logger, live>>
    /\ UNCHANGED <<now, host, concVars>>

StoreInit(origin) ==
    /\ status = "ok"
    /\ dir = None
    /\ Open(Storage_init(fs, origin, host, now), "init", origin)

StoreLoad(path) ==
    /\ status = "ok"
    /\ dir = None
    /\ Open(Storage_load(fs, path, host, now), "load", path)

\* The handle goes out of scope; nothing is written.
StoreDrop ==
    /\ HandleOpen
    /\ backup' = NoIndex.backup
    /\ cache' = NoIndex.cache
    /\ dir' = None
    /\ logger' = None
    /\ live' = {}
    /\ ret' = Call("drop", <<>>, <<>>, Ok(<<>>))
    /\ UNCHANGED <<now, status, fs, host, concVars>>

\* A new process after a panic ended the last one.
Restart ==
    /\ status = "panicked"
    /\ status' = "ok"
    /\ ret' = Call("start", <<>>, <<>>, Ok(<<>>))
    /\ UNCHANGED <<backup, cache, now, live, storeVars, concVars>>

\* Apply the outcome of a call on the open handle; a panic or a hang takes
\* the handle with it.
StoreStep(o, op, key, value) ==
    /\ ret' = Call(op, key, value, o.result)
    /\ fs' = o.store.fs
    /\ IF IsPanic(o.result)
       THEN /\ status' = "panicked"
            /\ backup' = NoIndex.backup
            /\ cache' = NoIndex.cache
            /\ dir' = None
            /\ logger' = None
       ELSE /\ status' = StatusAfter(o.result)
            /\ backup' = o.store.backup
            /\ cache' = o.store.cache
            /\ logger' = o.store.logger
            /\ UNCHANGED dir
    /\ UNCHANGED <<now, host, concVars>>

StoreInsert(k, v) ==
    /\ HandleOpen
    /\ LogRoom(3)
    /\ backup.metadata.object_count < MaxCount
    /\ StoreStep(Storage_insert(Store, k, v, now), "store_insert", k, v)
    /\ live' = IF IsUtf8(k) /\ IsOk(Object_new(v)) THEN live \cup {k}
               ELSE IF IsUtf8(k) THEN live ELSE {}

StoreGet(k) ==
    /\ HandleOpen
    /\ LogRoom(2)
    /\ StoreStep(Storage_get(Store, k, now), "store_get", k, <<>>)
    /\ live' = IF IsUtf8(k) THEN live ELSE {}

StoreRemove(k) ==
    /\ HandleOpen
    /\ LogRoom(3)
    /\ StoreStep(Storage_remove(Store, k, now), "store_remove", k, <<>>)
    /\ live' = IF IsUtf8(k) THEN live \ {k} ELSE {}

StoreSave ==
    /\ HandleOpen
    /\ LogRoom(1)
    /\ StoreStep(Storage_save(Store), "save", <<>>, <<>>)
    /\ UNCHANGED live

StoreNext ==
    \/ Tick
    \/ StoreInit(Origin)
    \/ \E p \in LoadPaths : StoreLoad(p)
    \/ StoreDrop
    \/ Restart
    \/ \E k \in Keys \cup {BadKey}, v \in Values \cup {EmptyValue} :
          StoreInsert(k, v)
    \/ \E k \in Keys \cup {BadKey} : StoreGet(k)
    \/ \E k \in Keys \cup {BadKey} : StoreRemove(k)
    \/ StoreSave

\* The Storage handle over the files of one origin directory.
SpecStore == StoreInitState /\ [][StoreNext]_vars

StoreContainsKey(k) ==
    /\ HandleOpen
    /\ LogRoom(1)
    /\ StoreStep(Storage_contains_key(Store, k), "store_contains_key", k, <<>>)
    /\ live' = IF IsUtf8(k) THEN live ELSE {}

StoreLen ==
    /\ HandleOpen
    /\ LogRoom(1)
    /\ StoreStep(Storage_len(Store), "store_len", <<>>, <<>>)
    /\ UNCHANGED live

StoreIsEmpty ==
    /\ HandleOpen
    /\ LogRoom(1)
    /\ StoreStep(Storage_is_empty(Store), "store_is_empty", <<>>, <<>>)
    /\ UNCHANGED live

StoreGetAllKeys ==
    /\ HandleOpen
    /\ LogRoom(1)
    /\ StoreStep(Storage_get_all_keys(Store), "store_get_all_keys", <<>>, <<>>)
    /\ UNCHANGED live

ReadNext ==
    \/ StoreInit(Origin)
    \/ \E p \in LoadPaths : StoreLoad(p)
    \/ StoreDrop
    \/ Restart
    \/ \E k \in Keys \cup {BadKey}, v \in Values \cup {EmptyValue} :
          StoreInsert(k, v)
    \/ \E k \in Keys \cup {BadKey} : StoreGet(k)
    \/ \E k \in Keys \cup {BadKey} : StoreRemove(k)
    \/ StoreSave
    \/ \E k \in Keys \cup {BadKey} : StoreContainsKey(k)
    \/ StoreLen
    \/ StoreIsEmpty
    \/ StoreGetAllKeys

\* The Storage handle with its queries next to the other calls, all within
\* one instant of the clock.
SpecRead == StoreInitState /\ [][ReadNext]_vars

\* The hosts a .zewos directory may be copied between.
Hosts == {"h1", "h2"}

\* The origin directory is copied as it is, at the same path, to another
\* host, and the program goes on there.
CopyToHost(h) ==
    /\ status = "ok"
    /\ dir = None
    /\ h # host
    /\ host' = h
    /\ ret' = Call("copy_to_host", <<>>, <<>>, Ok(<<>>))
    /\ UNCHANGED <<backup, cache, now, status, live, fs, dir, logger, concVars>>

MoveNext ==
    \/ StoreInit(Origin)
    \/ \E p \in LoadPaths : StoreLoad(p)
    \/ StoreDrop
    \/ Restart
    \/ \E k \in Keys, v \in Values : StoreInsert(k, v)
    \/ \E h \in Hosts : CopyToHost(h)

\* A store whose directory travels between hosts.
SpecMove == StoreInitState /\ [][MoveNext]_vars

\* Someone outside the program deletes the objects directory of the open
\* store.
RemoveObjectsDir ==
    /\ HandleOpen
    /\ Path_parent(Directory_objs_file(Unwrap(dir)).path) \in fs.dirs
    /\ fs' = [dirs |-> fs.dirs \ {Path_parent(Directory_objs_file(Unwrap(dir)).path)},
              files |-> MapDel(fs.files, Directory_objs_file(Unwrap(dir)).path)]
    /\ ret' = Call("remove_objects_dir", <<>>, <<>>, Ok(<<>>))
    /\ UNCHANGED <<backup, cache, now, status, live, dir, logger, host, concVars>>

FaultNext ==
    \/ StoreInit(Origin)
    \/ StoreDrop
    \/ Restart
    \/ \E k \in Keys, v \in Values \cup {EmptyValue} : StoreInsert(k, v)
    \/ \E k \in Keys : StoreRemove(k)
    \/ StoreSave
    \/ RemoveObjectsDir

\* A store whose objects directory may vanish under it.
SpecFault == StoreInitState /\ [][FaultNext]_vars

\* ------------------------------------------------------ calls on one File

\* The texts written and appended, a character each element.
Texts == {<<>>, <<"H">>, <<"H", "i">>, <<",">>}

FilePath == Path_join(Origin, <<"f">>)

\* File::new(path): the handle, and the file it created.
FileOf(f) == FileHandler_new(f, FilePath, host)

FileInit ==
    /\ backup = NoIndex.backup
    /\ cache = NoIndex.cache
    /\ now = 0
    /\ status = "ok"
    /\ ret = Call("file_new", <<>>, <<>>, Ok(<<>>))
    /\ live = {}
    /\ host = "h1"
    /\ fs = FileOf(Fs_create_dir_all(EmptyFs, Origin)).fs
    /\ dir = None
    /\ logger = None
    /\ pc = [t \in Threads |-> Idle]
    /\ hist = <<>>

\* A call on the file: what it leaves on disk and what it returns.
FileStep(f, op, value, res) ==
    /\ Len(hist) < MaxOps
    /\ fs' = f
    /\ ret' = Call(op, <<>>, value, res)
    /\ hist' = Append(hist, Call(op, <<>>, value, res))
    /\ status' = IF IsPanic(res) THEN "panicked" ELSE "ok"
    /\ UNCHANGED <<backup, cache, now, live, dir, logger, host, pc>>

FileWrite(a) ==
    /\ status = "ok"
    /\ FileStep(FileHandler_write(fs, FileOf(fs).handler, a), "file_write", a,
                Ok(<<>>))

FileAppend(b) ==
    /\ status = "ok"
    /\ FileStep(File_append(fs, FileOf(fs).handler, b), "file_append", b,
                Ok(<<>>))

FileRead ==
    /\ status = "ok"
    /\ FileStep(fs, "file_read", <<>>,
                FileHandler_read(fs, FileOf(fs).handler))

FileNext ==
    \/ \E a \in Texts : FileWrite(a)
    \/ \E b \in Texts : FileAppend(b)
    \/ FileRead
    \/ Restart

\* One encrypted File under a sequence of calls.
SpecFile == FileInit /\ [][FileNext]_vars

\* --------------------------------------------------- CacheManager calls

\* The configurations a cache is created with or updated to.
CacheSizes == {0, 1, 2, DefaultMaxSize}
CacheManagerConfigs ==
    {CacheConfig_new(m, 1, s) : m \in CacheSizes, s \in {LRU, FIFO}}

\* The backups load_from_backup is handed.
LoadedBackups ==
    {Backup_insert_all(Backup_new(0), m, IterKeys(m), 0) : m \in ObjectMaps}

CacheInit ==
    /\ backup = Backup_new(0)
    /\ \E c \in CacheManagerConfigs : cache = CacheManager_new(c)
    /\ now = 0
    /\ status = "ok"
    /\ ret = Call("new", <<>>, <<>>, Ok(<<>>))
    /\ live = {}
    /\ fs = EmptyFs
    /\ dir = None
    /\ logger = None
    /\ host = "h1"
    /\ pc = [t \in Threads |-> Idle]
    /\ hist = <<>>

\* Apply the outcome of a call on the cache alone.
CacheStep(c, res, op, key, value) ==
    /\ cache' = c
    /\ status' = StatusAfter(res)
    /\ ret' = Call(op, key, value, res)
    /\ UNCHANGED <<backup, now, live, storeVars, concVars>>

CacheInsert(k, v) ==
    /\ status = "ok"
    /\ LET r == CacheManager_insert(cache, k, Object_new(v).val, now)
       IN  CacheStep(r.cache, r.result, "cache_insert", k, v)

\* The record of the call keeps, as its value, the last_accessed the entry
\* had when the call was made.
CacheGet(k) ==
    /\ status = "ok"
    /\ LET r == CacheManager_get(cache, k, now)
       IN  CacheStep(r.cache, Ok(r.result), "cache_get", k,
                     IF k \in DOMAIN cache.cache
                     THEN <<cache.cache[k].last_accessed>> ELSE <<>>)

CacheRemove(k) ==
    /\ status = "ok"
    /\ LET r == CacheManager_remove(cache, k)
       IN  CacheStep(r.cache, Ok(r.result), "cache_remove", k, <<>>)

CacheClear ==
    /\ status = "ok"
    /\ CacheStep(CacheManager_clear(cache), Ok(<<>>), "cache_clear", <<>>, <<>>)

\* The record of the call keeps, as its value, the keys that were dropped.
CacheEvictExpired ==
    /\ status = "ok"
    /\ CacheStep(CacheManager_evict_expired(cache, now), Ok(<<>>),
                 "cache_evict_expired", <<>>,
                 SelectSeq(IterKeys(cache.cache),
                           LAMBDA k : ~CacheManager_retained(cache, k, now)))

CacheLoadFromBackup(b) ==
    /\ status = "ok"
    /\ LET r == CacheManager_load_from_backup(cache, b, now)
       IN  CacheStep(r.cache, r.result, "cache_load_from_backup", <<>>, <<>>)

CacheUpdateConfig(c) ==
    /\ status = "ok"
    /\ CacheStep(CacheManager_update_config(cache, c), Ok(<<>>),
                 "cache_update_config", <<>>, <<>>)

CacheNext ==
    \/ Tick
    \/ \E k \in Keys, v \in Values : CacheInsert(k, v)
    \/ \E k \in Keys : CacheGet(k)
    \/ \E k \in Keys : CacheRemove(k)
    \/ CacheClear
    \/ CacheEvictExpired
    \/ \E b \in LoadedBackups : CacheLoadFromBackup(b)
    \/ \E c \in CacheManagerConfigs : CacheUpdateConfig(c)

\* The CacheManager under sequential calls.
SpecCache == CacheInit /\ [][CacheNext]_vars

\* ------------------------------------------------------------ Backup calls

\* A compression level other than the default one.
CustomLevel == 5

BackupConfigs ==
    {BackupConfig_new,
     BackupConfig_with_compression_level(BackupConfig_new, CustomLevel)}

\* The backups update is handed: built under either configuration.
OtherBackups ==
    {Backup_insert_all(Backup_with_config(c, 0), m, IterKeys(m), 0) :
        c \in BackupConfigs, m \in ObjectMaps}

BackupInit ==
    /\ \E c \in BackupConfigs : backup = Backup_with_config(c, 0)
    /\ cache = CacheManager_new(CacheConfig_default)
    /\ now = 0
    /\ status = "ok"
    /\ ret = Call("new", <<>>, <<>>, Ok(<<>>))
    /\ live = {}
    /\ fs = EmptyFs
    /\ dir = None
    /\ logger = None
    /\ host = "h1"
    /\ pc = [t \in Threads |-> Idle]
    /\ hist = <<>>

BackupStep(b, op, key, value, res) ==
    /\ backup' = b
    /\ ret' = Call(op, key, value, res)
    /\ UNCHANGED <<cache, now, status, live, storeVars, concVars>>

BackupInsert(k, v) ==
    /\ backup.metadata.object_count < MaxCount
    /\ LET r == Backup_insert(backup, k, Object_new(v).val, now)
       IN  BackupStep(r.backup, "backup_insert", k, v, Ok(OptBytes(r.result)))

BackupRemove(k) ==
    /\ LET r == Backup_remove(backup, k, now)
       IN  BackupStep(r.backup, "backup_remove", k, <<>>,
                      Ok(OptBytes(r.result)))

BackupUpdate(other) ==
    /\ BackupStep(Backup_update(backup, other), "backup_update", <<>>, <<>>,
                  Ok(<<>>))

BackupNext ==
    \/ Tick
    \/ \E k \in Keys, v \in Values : BackupInsert(k, v)
    \/ \E k \in Keys : BackupRemove(k)
    \/ \E o \in OtherBackups : BackupUpdate(o)

\* One Backup under sequential calls.
SpecBackup == BackupInit /\ [][BackupNext]_vars

\* ------------------------------------------- concurrent StorageIndex calls
\* Each lock region of a call is one step.  insert and remove release the
\* backup write guard before they ask for the cache write guard; the miss
\* path of get keeps its backup read guard while it writes the cache (the
\* guard is a temporary of the `if let` scrutinee).  No call waits for the
\* backup lock while it holds the cache lock, so a region that holds the
\* backup guard and then takes the cache guard is one step.

\* The indexes threads share: every insert into an empty cache fails at
\* max_size 0, so the shared cache has room for at least one entry.
ConcConfigs == {c \in CacheConfigs : c.max_size > 0}

\* The claim at stake is per key: the threads contend for one key.
ConcKeys == {<<107>>}

ConcInit ==
    /\ \E c \in ConcConfigs :
          /\ backup = StorageIndex_new(c, 0).backup
          /\ cache = StorageIndex_new(c, 0).cache
    /\ now = 0
    /\ status = "ok"
    /\ ret = Call("new", <<>>, <<>>, Ok(<<>>))
    /\ live = {}
    /\ fs = EmptyFs
    /\ dir = None
    /\ logger = None
    /\ host = "h1"
    /\ pc = [t \in Threads |-> Idle]
    /\ hist = <<>>

\* A thread whose call hung keeps the guards it held: the cache write
\* guard, and on the miss path of get the backup read guard as well.
\* The cache guard as it would be if sync_cache gave it up after the clear.
CacheLockFree_after_clear ==
    \A t \in Threads : pc[t].at \notin {"hung", "hung_get"}

\* The backup guard as it would be if serialize_backup took it for each
\* blob apart.
BackupWriteFree_between_blobs ==
    \A t \in Threads : pc[t].at \notin {"hung_get", "sync_reseed"}

\* A thread in the middle of sync_cache holds both as well, and one in the
\* middle of serialize_backup the backup read guard.
CacheLockFree ==
    \A t \in Threads : pc[t].at \notin {"hung", "hung_get", "sync_reseed"}
BackupWriteFree ==
    \A t \in Threads :
        pc[t].at \notin {"hung_get", "sync_reseed", "serialize_objects"}

\* The time of the next invoke or return event.
Returned == {i \in DOMAIN hist : hist[i].ret > 0}
NextEvent == Len(hist) + Cardinality(Returned) + 1

Invoked(op, key, value) ==
    Append(hist, [op |-> op, key |-> key, value |-> value,
                  res |-> Ok(<<>>), inv |-> NextEvent, ret |-> 0])

\* The call `h` of the history returns `res` now.
ReturnedWith(hs, h, res) ==
    [hs EXCEPT ![h].res = res,
               ![h].ret = Len(hs) + Cardinality({i \in DOMAIN hs :
                                                    hs[i].ret > 0}) + 1]

\* A step of thread t: the index it leaves; the call `h` returns with the
\* outcome's result, hangs at `hungAt`, or goes on at `next`.
ConcStep(t, o, hs, h, op, key, value, next, hungAt) ==
    /\ backup' = o.backup
    /\ cache' = o.cache
    /\ IF IsHang(o.result)
       THEN /\ pc' = [pc EXCEPT ![t] = [at |-> hungAt]]
            /\ hist' = hs
            /\ status' = "hung"
            /\ ret' = Call(op, key, value, o.result)
       ELSE IF next.at = "idle"
       THEN /\ pc' = [pc EXCEPT ![t] = Idle]
            /\ hist' = ReturnedWith(hs, h, o.result)
            /\ ret' = Call(op, key, value, o.result)
            /\ UNCHANGED status
       ELSE /\ pc' = [pc EXCEPT ![t] = next]
            /\ hist' = hs
            /\ UNCHANGED <<status, ret>>
    /\ UNCHANGED <<now, live, storeVars>>

\* insert up to the end of `self.backup.write().unwrap().insert(..)?`.
ConcInsertBackup(t, k, v) ==
    /\ pc[t].at = "idle"
    /\ Len(hist) < MaxOps
    /\ BackupWriteFree
    /\ LET bi == Backup_insert(backup, k, Object_new(v).val, now)
       IN  ConcStep(t, [backup |-> bi.backup, cache |-> cache,
                        result |-> Ok(<<>>)],
                    Invoked("insert", k, v), Len(hist) + 1, "insert", k, v,
                    [at |-> "insert_cache", key |-> k, value |-> v,
                     prev |-> bi.result, h |-> Len(hist) + 1], "hung")

\* insert from `self.cache.write().unwrap().insert(key, object)?` on.
ConcInsertCache(t) ==
    /\ pc[t].at = "insert_cache"
    /\ CacheLockFree
    /\ ConcStep(t, StorageIndex_insert_cache(Index,
                       [backup |-> backup, result |-> pc[t].prev],
                       pc[t].key, Object_new(pc[t].value).val, now),
                hist, pc[t].h, "insert", pc[t].key, pc[t].value, Idle, "hung")

\* get up to the end of the cache lookup: a hit returns.
ConcGetCache(t, k) ==
    /\ pc[t].at = "idle"
    /\ Len(hist) < MaxOps
    /\ CacheLockFree
    /\ LET cg == CacheManager_get(cache, k, now)
       IN  ConcStep(t, [backup |-> backup, cache |-> cg.cache,
                        result |-> IF IsSome(cg.result)
                                   THEN Ok(Object_to_bytes(Unwrap(cg.result)))
                                   ELSE Ok(<<>>)],
                    Invoked("get", k, <<>>), Len(hist) + 1, "get", k, <<>>,
                    IF IsSome(cg.result) THEN Idle
                    ELSE [at |-> "get_backup", key |-> k, h |-> Len(hist) + 1],
                    "hung")

\* get on the miss path: the backup is read and the cache populated.
ConcGetBackup(t) ==
    /\ pc[t].at = "get_backup"
    /\ CacheLockFree
    /\ ConcStep(t, StorageIndex_get_backup(Index, pc[t].key, now),
                hist, pc[t].h, "get", pc[t].key, <<>>, Idle, "hung_get")

\* remove up to the end of `self.backup.write().unwrap().remove(key)?`.
ConcRemoveBackup(t, k) ==
    /\ pc[t].at = "idle"
    /\ Len(hist) < MaxOps
    /\ BackupWriteFree
    /\ LET br == Backup_remove(backup, k, now)
       IN  ConcStep(t, [backup |-> br.backup, cache |-> cache,
                        result |-> Ok(<<>>)],
                    Invoked("remove", k, <<>>), Len(hist) + 1,
                    "remove", k, <<>>,
                    [at |-> "remove_cache", key |-> k, prev |-> br.result,
                     h |-> Len(hist) + 1], "hung")

\* remove from `self.cache.write().unwrap().remove(key)` on.
ConcRemoveCache(t) ==
    /\ pc[t].at = "remove_cache"
    /\ CacheLockFree
    /\ ConcStep(t, [backup |-> backup,
                    cache |-> CacheManager_remove(cache, pc[t].key).cache,
                    result |-> Ok(OptBytes(pc[t].prev))],
                hist, pc[t].h, "remove", pc[t].key, <<>>, Idle, "hung")

\* clear_cache is one region; it is no call on a key and leaves no entry
\* in the history.
ConcClearCache(t) ==
    /\ pc[t].at = "idle"
    /\ CacheLockFree
    /\ DOMAIN cache.cache # {}
    /\ backup' = backup
    /\ cache' = StorageIndex_clear_cache(Index).cache
    /\ ret' = Call("clear_cache", <<>>, <<>>, Ok(<<>>))
    /\ UNCHANGED <<now, status, live, storeVars, concVars>>

\* sync_cache up to the end of cache.clear(): the thread has taken the
\* backup read guard and the cache write guard and keeps both.
ConcSyncClear(t) ==
    /\ pc[t].at = "idle"
    /\ CacheLockFree
    /\ backup' = backup
    /\ cache' = CacheManager_clear(cache)
    /\ pc' = [pc EXCEPT ![t] = [at |-> "sync_reseed"]]
    /\ UNCHANGED <<now, status, ret, live, storeVars, hist>>

\* sync_cache from the loop over the backup's objects to its return.
ConcSyncReseed(t) ==
    /\ pc[t].at = "sync_reseed"
    /\ backup' = StorageIndex_sync_cache(Index, now).backup
    /\ cache' = StorageIndex_sync_cache(Index, now).cache
    /\ ret' = Call("sync_cache", <<>>, <<>>,
                   StorageIndex_sync_cache(Index, now).result)
    /\ IF IsHang(StorageIndex_sync_cache(Index, now).result)
       THEN /\ pc' = [pc EXCEPT ![t] = [at |-> "hung_get"]]
            /\ status' = "hung"
       ELSE /\ pc' = [pc EXCEPT ![t] = Idle]
            /\ UNCHANGED status
    /\ UNCHANGED <<now, live, storeVars, hist>>

ConcNext ==
    \/ \E t \in Threads, k \in ConcKeys, v \in Values : ConcInsertBackup(t, k, v)
    \/ \E t \in Threads : ConcInsertCache(t)
    \/ \E t \in Threads, k \in ConcKeys : ConcGetCache(t, k)
    \/ \E t \in Threads : ConcGetBackup(t)
    \/ \E t \in Threads, k \in ConcKeys : ConcRemoveBackup(t, k)
    \/ \E t \in Threads : ConcRemoveCache(t)
    \/ \E t \in Threads : ConcClearCache(t)

\* Threads calling one StorageIndex concurrently.
SpecConc == ConcInit /\ [][ConcNext]_vars

\* serialize_backup up to the end of serde_json::to_vec(&self.metadata):
\* the thread has taken the backup read guard and keeps it.
ConcSerializeMetadata(t) ==
    /\ pc[t].at = "idle"
    /\ pc' = [pc EXCEPT ![t] =
                 [at |-> "serialize_objects",
                  metadata |-> StorageIndex_serialize_backup(Index, None)[2]]]
    /\ UNCHANGED <<backup, cache, now, status, ret, live, storeVars, hist>>

\* serialize_backup from bincode::serialize(&self.objects) to its return.
ConcSerializeObjects(t) ==
    /\ pc[t].at = "serialize_objects"
    /\ pc' = [pc EXCEPT ![t] = Idle]
    /\ ret' = Call("serialize_backup", <<>>, <<>>,
                   Ok(<<StorageIndex_serialize_backup(Index, None)[1],
                        pc[t].metadata>>))
    /\ UNCHANGED <<backup, cache, now, status, live, storeVars, hist>>

SerializeNext ==
    \/ \E t \in Threads, k \in Keys, v \in Values :
          Len(hist) < MaxOps - 1 /\ ConcInsertBackup(t, k, v)
    \/ \E t \in Threads : ConcInsertCache(t)
    \/ \E t \in Threads, k \in Keys :
          Len(hist) < MaxOps - 1 /\ ConcRemoveBackup(t, k)
    \/ \E t \in Threads : ConcRemoveCache(t)
    \/ \E t \in Threads : ConcSerializeMetadata(t)
    \/ \E t \in Threads : ConcSerializeObjects(t)

\* Threads calling one StorageIndex, serialize_backup among the calls.
SpecSerialize == ConcInit /\ [][SerializeNext]_vars

\* The value the threads of SpecSync write.
SyncValues == {<<1>>}

SyncNext ==
    \/ \E t \in Threads, k \in Keys, v \in SyncValues :
          Len(hist) < MaxOps - 1 /\ ConcInsertBackup(t, k, v)
    \/ \E t \in Threads : ConcInsertCache(t)
    \/ \E t \in Threads, k \in Keys :
          Len(hist) < MaxOps - 1 /\ ConcGetCache(t, k)
    \/ \E t \in Threads : ConcGetBackup(t)
    \/ \E t \in Threads, k \in Keys :
          Len(hist) < MaxOps - 1 /\ ConcRemoveBackup(t, k)
    \/ \E t \in Threads : ConcRemoveCache(t)
    \/ \E t \in Threads : ConcSyncClear(t)
    \/ \E t \in Threads : ConcSyncReseed(t)

\* Threads calling one StorageIndex, sync_cache among the calls.
SpecSync == ConcInit /\ [][SyncNext]_vars

\* =============================================================== claims

\* The bytes each key maps to.
BytesMap(objects) == [k \in DOMAIN objects |-> Object_to_bytes(objects[k])]

\* What get(key) would return now, and whether it would succeed with `v`.
GetNow(key) == StorageIndex_get(Index, key, now).result
GetsValue(key, v) == IsOk(GetNow(key)) /\ GetNow(key).val = v
GetsKeyNotFound(key) ==
    GetNow(key).tag = "Err" /\ GetNow(key).val = "KeyNotFound"

\* C1: right after insert(k, v) returned success, get(k) returns exactly v
\* and contains_key(k) is true, whatever calls came before.
C1_InsertThenGet ==
    (ret.op = "insert" /\ IsOk(ret.res)) =>
        /\ GetsValue(ret.key, ret.value)
        /\ StorageIndex_contains_key(Index, ret.key)

\* C1 witness: an insert that replaced a different value has returned.
C1_Witness ==
    /\ ret.op = "insert" /\ IsOk(ret.res)
    /\ IsSome(ret.res.val) /\ Unwrap(ret.res.val) # ret.value

\* C2: right after remove(k) returned, get(k) fails with KeyNotFound and
\* contains_key(k) is false.
C2_RemoveThenGet ==
    ret.op = "remove" =>
        /\ IsOk(ret.res)
        /\ GetsKeyNotFound(ret.key)
        /\ ~StorageIndex_contains_key(Index, ret.key)
        /\ ~CacheManager_contains_key(cache, ret.key)

\* C2 witness: a remove returned the value of a key that was live.
C2_Witness == ret.op = "remove" /\ IsOk(ret.res) /\ IsSome(ret.res.val)

\* C3: the backup metadata counts the live objects: object_count = len()
\* and total_size = the sum of the sizes of the live values.
C3_MetadataCountsLive ==
    /\ backup.metadata.object_count = StorageIndex_len(Index)
    /\ backup.metadata.total_size = StorageIndex_get_total_size(Index)

DiskObjects(f, d) ==
    LET r == FileHandler_read(f, Directory_objs_file(d))
    IN  IF IsOk(r) /\ IsOk(decompress_bytes(r.val))
        THEN Some(Bincode_deserialize(decompress_bytes(r.val).val))
        ELSE None

\* C5: when Storage insert or remove returns success, the snapshot on disk,
\* decrypted and decoded, holds exactly the backup's key -> value map.
C5_AutoSave ==
    (ret.op \in {"store_insert", "store_remove"} /\ IsOk(ret.res)) =>
        /\ IsSome(DiskObjects(fs, Unwrap(dir)))
        /\ BytesMap(Unwrap(DiskObjects(fs, Unwrap(dir)))) =
               BytesMap(backup.objects)

\* C5 witness: a Storage remove of a live key returned while another key
\* stays stored.
C5_Witness ==
    /\ ret.op = "store_remove" /\ IsOk(ret.res) /\ IsSome(ret.res.val)
    /\ DOMAIN backup.objects # {}

\* The store load would give for this handle's own directory.
Reloaded == Storage_load(fs, Unwrap(dir).path, host, now)
ReloadedIndex ==
    [backup |-> Reloaded.store.backup, cache |-> Reloaded.store.cache]

\* C6: after save(), load of the store's own directory gives a store with
\* the same keys and the same value for every key.
C6_SaveLoadRoundTrip ==
    (ret.op = "save" /\ IsOk(ret.res)) =>
        /\ IsOk(Reloaded.result)
        /\ Len(StorageIndex_get_all_keys(ReloadedIndex)) =
               Len(StorageIndex_get_all_keys(Index))
        /\ \A k \in Keys :
              /\ StorageIndex_contains_key(ReloadedIndex, k) <=>
                     StorageIndex_contains_key(Index, k)
              /\ StorageIndex_contains_key(Index, k) =>
                     /\ IsOk(StorageIndex_get(ReloadedIndex, k, now).result)
                     /\ StorageIndex_get(ReloadedIndex, k, now).result.val =
                            GetNow(k).val

\* C6 witness: save() returned on a store that holds both keys.
C6_Witness ==
    /\ ret.op = "save" /\ IsOk(ret.res)
    /\ DOMAIN backup.objects = Keys

\* The handles Directory::new gives for `path` (nothing is created here).
DirectoryAt(path) == Directory_new(fs, path, host).dir

\* C7: load called with the origin init was given finds the snapshot that
\* init and insert wrote under <origin>/.zewos: it succeeds and get returns
\* every stored value.
C7_LoadByInitOrigin ==
    ( /\ ret.op = "load" /\ ret.path = Origin
      /\ IsSome(DiskObjects(fs, DirectoryAt(Path_join(Origin, <<".zewos">>))))
      /\ DOMAIN Unwrap(DiskObjects(fs,
             DirectoryAt(Path_join(Origin, <<".zewos">>)))) # {} )
    => /\ IsOk(ret.res)
       /\ \A k \in DOMAIN Unwrap(DiskObjects(fs,
              DirectoryAt(Path_join(Origin, <<".zewos">>)))) :
             GetsValue(k, Object_to_bytes(Unwrap(DiskObjects(fs,
                 DirectoryAt(Path_join(Origin, <<".zewos">>))))[k]))

\* C9: whenever the last call has returned, for every key the cache holds
\* the backup holds the same object or no object at all.
C9_CacheAgreesWithBackup ==
    status = "ok" => \A k \in DOMAIN cache.cache :
        k \in DOMAIN backup.objects =>
            backup.objects[k] = cache.cache[k].object

\* C10: the cache never holds more entries than its configured max_size.
C10_CacheSizeWithinMax ==
    CacheManager_get_size(cache) <= cache.config.max_size

\* The value a key has after call `c` took effect on value `cur`.
RegisterAfter(c, cur) ==
    IF c.op = "insert" THEN Some(c.value)
    ELSE IF c.op = "remove" THEN None
    ELSE cur

\* Whether call `c` may take effect when the key has value `cur`: a get
\* returns that value, or KeyNotFound when there is none.
RegisterAllows(c, cur) ==
    c.op = "get" =>
        IF IsSome(cur) THEN IsOk(c.res) /\ c.res.val = Unwrap(cur)
        ELSE c.res.tag = "Err"

\* Whether the calls S of the history can take effect one at a time, from
\* value `cur`, in an order that keeps every call that returned before
\* another was invoked ahead of it.
RECURSIVE Linearizes(_, _)
Linearizes(S, cur) ==
    \/ S = {}
    \/ \E i \in S :
          /\ \A j \in S : ~(hist[j].ret < hist[i].inv)
          /\ RegisterAllows(hist[i], cur)
          /\ Linearizes(S \ {i}, RegisterAfter(hist[i], cur))

\* C8: whenever no call is in flight, the calls made on each key are
\* linearizable: every get returned the value of the latest write before
\* it in one order of the calls that respects their real-time order, so
\* no get after a returned insert saw an older value.
C8_LinearizablePerKey ==
    (\A t \in Threads : pc[t] = Idle) =>
        \A k \in ConcKeys : Linearizes({i \in DOMAIN hist : hist[i].key = k}, None)

\* The step is a call of `op` (the clock does not move during a call).
CallOf(op) == ret'.op = op /\ now' = now

\* C11: evict_expired drops exactly the entries with now - last_accessed
\* > ttl; every entry with now - last_accessed <= ttl, equality included,
\* stays as it was, and nothing else appears.
C11_EvictExpiredExact ==
    [][CallOf("cache_evict_expired") =>
          /\ DOMAIN cache'.cache =
                 {k \in DOMAIN cache.cache :
                     now - cache.cache[k].last_accessed <= cache.config.ttl}
          /\ \A k \in DOMAIN cache'.cache : cache'.cache[k] = cache.cache[k]
          /\ cache'.config = cache.config]_vars

\* C11 witness: evict_expired dropped an entry and kept one whose age is
\* exactly the ttl.
C11_Witness ==
    /\ ret.op = "cache_evict_expired"
    /\ ret.value # <<>>
    /\ \E k \in DOMAIN cache.cache :
          now - cache.cache[k].last_accessed = cache.config.ttl

\* The backup that Backup::deserialize gives for the blobs of serialize.
RoundTrip(b) ==
    Backup_deserialize(Backup_serialize(b)[2], Backup_serialize(b)[1],
                       Backup_serialize(b)[3])

DiskMetadata(f, d) ==
    LET r == FileHandler_read(f, Directory_metadata_file(d))
    IN  IF IsOk(r) /\ IsOk(Json_from_slice(r.val))
        THEN Some(Json_from_slice(r.val).val)
        ELSE None

\* C13: a Storage insert of an empty value fails with InvalidData and
\* leaves the backup (map and metadata), the cache and what the snapshot
\* files decode to as they were before the call.
C13_EmptyInsertNoEffect ==
    [][(CallOf("store_insert") /\ ret'.value = EmptyValue /\ IsUtf8(ret'.key))
       => /\ ret'.res = Err("InvalidData")
          /\ backup' = backup
          /\ cache' = cache
          /\ DiskObjects(fs', Unwrap(dir)) = DiskObjects(fs, Unwrap(dir))
          /\ DiskMetadata(fs', Unwrap(dir)) = DiskMetadata(fs, Unwrap(dir))]_vars

\* C14: an insert of a non-empty value returns the bytes the key mapped to
\* before the call (None when the key was not live); afterwards get(k)
\* returns the new value, and a replacing insert leaves len() as it was.
C14_InsertReturnsPrevious ==
    [][(CallOf("insert") /\ ret'.value # EmptyValue)
       => /\ IsOk(ret'.res)
          /\ ret'.res.val = OptBytes(Backup_get(backup, ret'.key))
          /\ IsOk(StorageIndex_get(Index', ret'.key, now).result)
          /\ StorageIndex_get(Index', ret'.key, now).result.val = ret'.value
          /\ ret'.key \in DOMAIN backup.objects =>
                 StorageIndex_len(Index') = StorageIndex_len(Index)]_vars

\* C15: remove of a live key returns its value and takes 1 off
\* object_count and the value's size off total_size; remove of a key that
\* is not live returns None and leaves the backup map, its metadata and the
\* cache contents as they were.
C15_RemoveEffect ==
    [][CallOf("remove")
       => IF ret'.key \in DOMAIN backup.objects
          THEN /\ IsOk(ret'.res)
               /\ ret'.res.val =
                      Some(Object_to_bytes(backup.objects[ret'.key]))
               /\ backup'.metadata.object_count =
                      backup.metadata.object_count - 1
               /\ backup'.metadata.total_size =
                      backup.metadata.total_size -
                          Object_size(backup.objects[ret'.key])
          ELSE /\ IsOk(ret'.res)
               /\ ret'.res.val = None
               /\ backup'.objects = backup.objects
               /\ backup'.metadata = backup.metadata
               /\ cache'.cache = cache.cache]_vars

\* C16: under LeastRecentlyUsed an insert into a full cache returns after
\* dropping one entry whose last_accessed is the smallest and stamping the
\* new entry with now; a get that hits stamps the entry with now.
C16_LruEvictsOldest ==
    [][/\ (/\ CallOf("cache_insert")
           /\ cache.config.eviction_strategy = LRU
           /\ CacheManager_full(cache)
           /\ DOMAIN cache.cache # {})
          => /\ IsOk(ret'.res)
             /\ \E e \in DOMAIN cache.cache :
                   /\ \A j \in DOMAIN cache.cache :
                         cache.cache[e].last_accessed <=
                             cache.cache[j].last_accessed
                   /\ DOMAIN cache'.cache =
                          (DOMAIN cache.cache \ {e}) \cup {ret'.key}
             /\ cache'.cache[ret'.key].last_accessed = now
       /\ (CallOf("cache_get") /\ ret'.key \in DOMAIN cache.cache)
          => cache'.cache[ret'.key].last_accessed = now]_vars

\* The index get(key) would leave now.
IndexAfterGet(key) ==
    [backup |-> StorageIndex_get(Index, key, now).backup,
     cache |-> StorageIndex_get(Index, key, now).cache]

\* C17: with max_size >= 1, for every key live in the backup that the
\* cache does not hold (evicted, cleared or expired), get(k) returns the
\* backup's value and leaves the key cached with the backup's object.
C17_ReadThrough ==
    (status = "ok" /\ cache.config.max_size >= 1) =>
        \A k \in DOMAIN backup.objects \ DOMAIN cache.cache :
            /\ GetsValue(k, Object_to_bytes(backup.objects[k]))
            /\ k \in DOMAIN IndexAfterGet(k).cache.cache
            /\ IndexAfterGet(k).cache.cache[k].object = backup.objects[k]

\* C18: no call is stuck for ever: no thread sits in a call that cannot
\* return, and no thread in a call waits for a guard that a stuck call
\* keeps (the backup guard is never awaited while the cache guard is held).
C18_EveryCallReturns ==
    \A t \in Threads :
        /\ pc[t].at \notin {"hung", "hung_get"}
        /\ pc[t].at \in {"insert_cache", "remove_cache", "get_backup"} =>
               CacheLockFree

ReadOps ==
    {"store_get", "store_contains_key", "store_len", "store_is_empty",
     "store_get_all_keys"}

\* C19: get, contains_key, len, is_empty and get_all_keys never write the
\* snapshot: the objects, metadata and config files on disk are the same
\* after the call as before, and so are the backup map and the backup
\* metadata in memory whenever the call comes back to its caller.
C19_ReadsLeaveSnapshot ==
    [][(ret'.op \in ReadOps /\ now' = now)
       => /\ fs' = fs
          /\ ~IsPanic(ret'.res) =>
                 /\ backup'.objects = backup.objects
                 /\ backup'.metadata = backup.metadata]_vars

\* A get came back with the value of a key of a store that has a decodable
\* snapshot on disk.
C19_Witness ==
    /\ ret.op = "store_get"
    /\ IsOk(ret.res)
    /\ IsSome(dir)
    /\ ret.key \in DOMAIN backup.objects
    /\ IsSome(DiskObjects(fs, Unwrap(dir)))

\* C20: right after update_backup returned success, get(k) returns the value
\* the restored backup holds for k for every key it holds, and fails with
\* KeyNotFound for every other key, whatever the cache held before.
C20_RestoreReseedsCache ==
    (ret.op = "update_backup" /\ IsOk(ret.res)) =>
        \A k \in Keys :
            IF k \in DOMAIN backup.objects
            THEN GetsValue(k, Object_to_bytes(backup.objects[k]))
            ELSE GetsKeyNotFound(k)

\* The objects file under `path` holds a frame sealed with another key than
\* the one a handle made on host `h` for that path derives.
SealedElsewhere(f, path, h) ==
    LET file == Path_join(path, ObjsFile)
    IN  /\ file \in DOMAIN f.files
        /\ f.files[file] # <<>>
        /\ ~IsOk(AES_decrypt(FileHandler_new(f, file, h).handler.aes,
                             f.files[file]))

\* C21: loading a directory whose snapshot was written on another host or
\* under another path fails, and the caller gets the failure back as an
\* AEADError.
C21_ForeignLoadReportsAead ==
    (ret.op = "load" /\ SealedElsewhere(fs, ret.path, host)) =>
        /\ status = "ok"
        /\ ret.res = Err("AEADError")

\* The objects file of the store under Origin cannot be written.
SaveFails == ~File_create_ok(fs, Path_join(Path_join(Origin, <<".zewos">>), ObjsFile))

\* C22: when the save inside a Storage insert or remove fails, the call
\* returns that failure to its caller as an error, and the index in memory
\* already holds the mutation.
C22_SaveFailureReturned ==
    (ret.op \in {"store_insert", "store_remove"} /\ SaveFails) =>
        /\ status = "ok"
        /\ ret.res.tag = "Err"
        /\ (ret.op = "store_insert" /\ IsOk(Object_new(ret.value))) =>
               /\ ret.key \in DOMAIN backup.objects
               /\ Object_to_bytes(backup.objects[ret.key]) = ret.value
        /\ ret.op = "store_remove" => ret.key \notin DOMAIN backup.objects

\* C23: clear_cache and evict_expired_cache leave the backup (map and
\* metadata) as it was; after evict_expired_cache no expired entry is in the
\* cache; and after either call get returns the backup's value for every
\* key the backup holds.
C23_CacheOnlyMaintenance ==
    [][(ret'.op \in {"clear_cache", "evict_expired_cache"} /\ now' = now)
       => /\ backup' = backup
          /\ ret'.op = "clear_cache" => cache'.cache = EmptyMap
          /\ ret'.op = "evict_expired_cache" =>
                 \A k \in DOMAIN cache'.cache :
                     CacheManager_retained(cache', k, now')
          /\ \A k \in DOMAIN backup'.objects :
                 LET r == StorageIndex_get(Index', k, now').result
                 IN  IsOk(r) /\ r.val = Object_to_bytes(backup'.objects[k])]_vars

\* C24: when sync_cache returns and the backup has no more entries than
\* max_size, the cache holds exactly the backup's key -> object pairs; and
\* from the clear to the end of the reseed no other thread takes a step on
\* the index, so none sees the cache in between.
C24_SyncCacheAtomic ==
    [][\A t \in Threads : pc[t].at = "sync_reseed" =>
          /\ \A u \in Threads \ {t} : pc'[u] = pc[u]
          /\ pc'[t].at \in {"idle", "hung_get"}
          /\ backup' = backup
          /\ Cardinality(DOMAIN backup.objects) <= cache.config.max_size =>
                 /\ pc'[t].at = "idle"
                 /\ IsOk(ret'.res)
                 /\ DOMAIN cache'.cache = DOMAIN backup.objects
                 /\ \A k \in DOMAIN backup.objects :
                        cache'.cache[k].object = backup.objects[k]]_vars

\* sync_cache has returned with both keys reseeded while the other thread
\* is between the two halves of an insert.
C24_Witness ==
    /\ ret.op = "sync_cache"
    /\ IsOk(ret.res)
    /\ DOMAIN cache.cache = Keys
    /\ \E t \in Threads : pc[t].at = "insert_cache"

\* C25: on an encrypted file, write(a), then append(b), then read() makes
\* the read return a followed by b.
C25_WriteAppendRead ==
    LET n == Len(hist)
    IN  (/\ n >= 3
         /\ hist[n - 2].op = "file_write"
         /\ hist[n - 1].op = "file_append"
         /\ hist[n].op = "file_read") =>
            /\ IsOk(hist[n].res)
            /\ hist[n].res.val = hist[n - 2].value \o hist[n - 1].value

\* C26: with max_size >= 1, a CacheManager insert into a cache that holds
\* exactly max_size entries succeeds, takes exactly one of the entries out
\* and puts the new one in; into a cache with fewer entries it succeeds
\* and takes none out.
C26_InsertEvictsOne ==
    [][(CallOf("cache_insert") /\ cache.config.max_size >= 1 /\
        CacheManager_get_size(cache) <= cache.config.max_size)
       => /\ IsOk(ret'.res)
          /\ ret'.key \in DOMAIN cache'.cache
          /\ Cardinality(DOMAIN cache.cache \ DOMAIN cache'.cache) =
                 IF CacheManager_get_size(cache) = cache.config.max_size
                 THEN 1 ELSE 0]_vars

\* The map `objects` (of the backup, or of cache entries' objects) gives
\* the bytes `v` for `k`.
Holds(objects, k, v) ==
    k \in DOMAIN objects /\ Object_to_bytes(objects[k]) = v

\* C27: an insert(k, v) first puts v into the backup and leaves the cache
\* alone, then puts v into the cache and leaves the backup alone; when it
\* returns success the cache holds v for k, and so does the backup unless
\* another call was started after this insert.
C27_WriteThrough ==
    [][\A t \in Threads :
          /\ (pc[t].at = "idle" /\ pc'[t].at = "insert_cache") =>
                 /\ Holds(backup'.objects, pc'[t].key, pc'[t].value)
                 /\ cache' = cache
          /\ (pc[t].at = "insert_cache" /\ pc'[t].at = "idle") =>
                 /\ IsOk(ret'.res)
                 /\ backup' = backup
                 /\ Holds([k \in DOMAIN cache'.cache |-> cache'.cache[k].object],
                          pc[t].key, pc[t].value)
                 /\ Len(hist) = pc[t].h =>
                        Holds(backup'.objects, pc[t].key, pc[t].value)]_vars

\* An insert that replaced another value has returned success with no
\* call started after it, and backup and cache both hold its value.
C27_Witness ==
    /\ ret.op = "insert"
    /\ IsOk(ret.res)
    /\ ret.res.val # <<>>
    /\ hist[Len(hist)].op = "insert"
    /\ hist[Len(hist)].ret > 0
    /\ Holds(backup.objects, ret.key, ret.value)
    /\ Holds([k \in DOMAIN cache.cache |-> cache.cache[k].object],
             ret.key, ret.value)

\* C28: the two blobs one serialize_backup call returns describe the backup
\* as it is at the return: the objects blob decodes to its map, the metadata
\* blob to its metadata (object_count and total_size among them); and from
\* the first blob to the second no insert or remove changes the backup.
C28_SnapshotConsistent ==
    [][\A t \in Threads : pc[t].at = "serialize_objects" =>
          /\ backup' = backup
          /\ pc'[t].at = "idle" =>
                 /\ IsOk(ret'.res)
                 /\ Bincode_deserialize(decompress_bytes(ret'.res.val[1]).val)
                        = backup.objects
                 /\ Json_from_slice(ret'.res.val[2]).val.object_count
                        = backup.metadata.object_count
                 /\ Json_from_slice(ret'.res.val[2]).val.total_size
                        = backup.metadata.total_size]_vars

\* A serialize_backup has returned the blobs of a backup of two objects
\* while the other thread waits to finish an insert.
C28_Witness ==
    /\ ret.op = "serialize_backup"
    /\ IsOk(ret.res)
    /\ Json_from_slice(ret.res.val[2]).val.object_count >= 2
    /\ \E t \in Threads : pc[t].at = "insert_cache"

Min(a, b) == IF a <= b THEN a ELSE b

\* C29: load_from_backup(B) on an empty cache returns and leaves the cache
\* holding exactly min(|B|, max_size) entries, each a key of B with B's
\* object; with |B| <= max_size these are all the keys of B.
C29_LoadFromBackupFills ==
    [][(CallOf("cache_load_from_backup") /\ cache.cache = EmptyMap) =>
          \A b \in LoadedBackups :
              (/\ cache' = CacheManager_load_from_backup(cache, b, now).cache
               /\ ret'.res = CacheManager_load_from_backup(cache, b, now).result)
              => /\ status' = "ok"
                 /\ CacheManager_get_size(cache') =
                        Min(Cardinality(DOMAIN b.objects), cache.config.max_size)
                 /\ \A k \in DOMAIN cache'.cache :
                        /\ k \in DOMAIN b.objects
                        /\ cache'.cache[k].object = b.objects[k]
                 /\ Cardinality(DOMAIN b.objects) <= cache.config.max_size =>
                        DOMAIN cache'.cache = DOMAIN b.objects]_vars

\* Putting `k` with the backup's object into the cache would come back
\* with an error.
PopulateFails(k) ==
    CacheManager_insert(cache, k, backup.objects[k], now).result.tag = "Err"

\* C30: a get of a key the cache lacks and the backup holds returns the
\* backup's value, with no error, also when putting the key into the cache
\* fails; the backup is left as it was.
C30_GetSwallowsPopulateError ==
    [][(/\ CallOf("get")
        /\ ret'.key \notin DOMAIN cache.cache
        /\ ret'.key \in DOMAIN backup.objects
        /\ PopulateFails(ret'.key))
       => /\ IsOk(ret'.res)
          /\ ret'.res.val = Object_to_bytes(backup.objects[ret'.key])
          /\ backup' = backup
          /\ status' = "ok"]_vars

\* A get has returned the value of a key that an index with max_size 0
\* holds in its backup and can never cache.
C30_Witness ==
    /\ ret.op = "get"
    /\ IsOk(ret.res)
    /\ cache.config.max_size = 0
    /\ ret.key \in DOMAIN backup.objects
    /\ ret.res.val = Object_to_bytes(backup.objects[ret.key])
    /\ ret.key \notin DOMAIN cache.cache

\* C31: after update(other) this backup's objects, metadata, content hash
\* and config all equal other's.
C31_UpdateAdoptsAll ==
    [][CallOf("backup_update") =>
          \A o \in OtherBackups :
              backup' = Backup_update(backup, o) =>
                  /\ backup'.objects = o.objects
                  /\ backup'.metadata = o.metadata
                  /\ backup'.hash = o.hash
                  /\ backup'.config = o.config]_vars

IsPrefix(s, t) == Len(s) <= Len(t) /\ SubSeq(t, 1, Len(s)) = s

\* The entries a returning get, insert or remove writes, in order.
CallEntries(action, key, res) ==
    <<Log_new("zewos_request", action, KeyInfo(key)),
      Log_new("zewos_request", action, Outcome(res))>>
    \o (IF action = "get" THEN <<>>
        ELSE <<Log_new("zewos_storage", "save", "backup_created")>>)

\* C33: while a session is active its log only grows at the end; a get,
\* insert or remove that returns appends its request entry, then its outcome
\* entry (success or failed), and insert and remove then the save entry;
\* without a session add_log changes nothing.
C33_LogAppendOnly ==
    [][/\ (IsSome(logger) /\ IsSome(logger') /\ dir' = dir) =>
             /\ Unwrap(logger').file = Unwrap(logger).file
             /\ IsPrefix(Unwrap(logger).logs, Unwrap(logger').logs)
       /\ \A a \in {"get", "insert", "remove"} :
             (CallOf("store_" \o a) /\ ret'.res.tag \in {"Ok", "Err"}) =>
                 Unwrap(logger').logs =
                     Unwrap(logger).logs \o CallEntries(a, ret'.key, ret'.res)
       /\ ~IsSome(logger) =>
             \A a \in {"get", "insert", "remove", "save"} :
                 LogsManager_add_log(logger, "zewos_request", a, "success")
                     = logger]_vars

\* An insert that failed in the index, logged after earlier entries.
C33_Witness ==
    /\ ret.op = "store_insert"
    /\ ret.res.tag = "Err"
    /\ IsSome(logger)
    /\ Len(Unwrap(logger).logs) > 3
    /\ Unwrap(logger).logs[Len(Unwrap(logger).logs) - 1]
           = Log_new("zewos_request", "insert", "failed")

\* C34: whenever StorageIndex insert returns an error, the backup map, the
\* backup metadata and the cache are what they were before the call.
C34_InsertAllOrNothing ==
    [][(CallOf("insert") /\ ret'.res.tag = "Err")
       => /\ backup'.objects = backup.objects
          /\ backup'.metadata = backup.metadata
          /\ cache' = cache]_vars

\* The directory under Origin is as a first init left it: created, and
\* neither snapshot file written since.
FreshlyInitialized ==
    /\ Fs_exists(fs, Path_join(Origin, <<".zewos">>))
    /\ Path_join(Path_join(Origin, <<".zewos">>), ObjsFile)
           \in DOMAIN fs.files
    /\ Path_join(Path_join(Origin, <<".zewos">>), MetadataFile)
           \in DOMAIN fs.files
    /\ fs.files[Path_join(Path_join(Origin, <<".zewos">>), ObjsFile)] = <<>>
    /\ fs.files[Path_join(Path_join(Origin, <<".zewos">>), MetadataFile)]
           = <<>>

\* C35: init on the directory a first init left behind, with no insert or
\* remove in between, succeeds and yields an empty store.
C35_SecondInitLoads ==
    [][(CallOf("init") /\ FreshlyInitialized)
       => /\ IsOk(ret'.res)
          /\ IsSome(dir')
          /\ status' = "ok"
          /\ DOMAIN backup'.objects = {}]_vars

\* C36: in every quiescent state of the index, contains_key(k) is true
\* exactly when get(k) succeeds.
C36_ContainsIffGet ==
    status = "ok" =>
        \A k \in Keys :
            StorageIndex_contains_key(Index, k)
                <=> IsOk(StorageIndex_get(Index, k, now).result)

\* C37: get on an entry whose age already exceeds ttl still hits, returns
\* the object and sets last_accessed to now, so an evict_expired that
\* follows at once keeps the entry (and get drops no other entry).
C37_GetRevivesExpired ==
    [][(/\ CallOf("cache_get")
        /\ ret'.key \in DOMAIN cache.cache
        /\ ~CacheManager_retained(cache, ret'.key, now))
       => /\ ret'.res = Ok(Some(cache.cache[ret'.key].object))
          /\ DOMAIN cache'.cache = DOMAIN cache.cache
          /\ cache'.cache[ret'.key].last_accessed = now
          /\ ret'.key \in
                 DOMAIN CacheManager_evict_expired(cache', now).cache]_vars

\* A get has hit an entry that was older than ttl.
C37_Witness ==
    /\ ret.op = "cache_get"
    /\ IsSome(ret.res.val)
    /\ ret.value # <<>>
    /\ now - ret.value[1] > cache.config.ttl
    /\ cache.cache[ret.key].last_accessed = now

\* C38: a CacheManager insert of a key the cache already holds replaces
\* that entry in place and removes no other key, also when the cache is at
\* max_size: it returns, and the set of cached keys is what it was.
C38_OverwriteInPlace ==
    [][(CallOf("cache_insert") /\ ret'.key \in DOMAIN cache.cache)
       => /\ IsOk(ret'.res)
          /\ status' = "ok"
          /\ DOMAIN cache'.cache = DOMAIN cache.cache
          /\ Object_to_bytes(cache'.cache[ret'.key].object) = ret'.value
          /\ \A k \in DOMAIN cache.cache \ {ret'.key} :
                 cache'.cache[k] = cache.cache[k]]_vars

====
